---- MODULE Spec2Model ----
(***************************************************************************)
(* Request routes of the media-request server (server/routes/request.ts):  *)
(* list, create, get, delete and change-status over the Media table and    *)
(* the MediaRequest table.                                                  *)
(*                                                                         *)
(* Spec     : every handler runs from its first line to its response       *)
(*            without another handler in between (calls one after another).*)
(* ConcSpec : create handlers are cut at their await points and the pieces *)
(*            of several calls interleave.                                  *)
(***************************************************************************)
EXTENDS Integers, Sequences, FiniteSets, TLC

VARIABLES
    medias,     \* Media table: sequence of rows, a row's id is its index
    requests,   \* MediaRequest table: set of rows, each with its seasons
    nextId,     \* next auto-increment id of the MediaRequest table
    last,       \* the last response sent: operation, caller, id, status code, body
    tasks       \* ConcSpec: the create calls in flight, one slot per task

vars == <<medias, requests, nextId, last, tasks>>

----------------------------------------------------------------------------
(* Bounds of the model *)

MaxRequests == 2    \* ids handed out by the MediaRequest table
MaxTmdbId == 1      \* catalog ids 1..MaxTmdbId
MaxSeason == 2      \* season numbers 1..MaxSeason
MaxLen == 2         \* length of the season list of a request body
ListRows == 24      \* requests filed before a listing (ListSpec)
NumTasks == 2       \* create calls in flight at once (ConcSpec)

----------------------------------------------------------------------------
(* Users and permissions *)

Users == {"ann", "bob", "mia"}

\* ann: plain requester; bob: requester with auto approve; mia: manager of
\* requests, who files none herself
permissions ==
    [u \in Users |->
        CASE u = "ann" -> {"REQUEST"}
          [] u = "bob" -> {"REQUEST", "AUTO_APPROVE"}
          [] u = "mia" -> {"MANAGE_REQUESTS"}]

hasPermission(u, p) == p \in permissions[u]

\* MediaRequestStatus: pending sorts lowest
PENDING == 0
APPROVED == 1
DECLINED == 2

\* MediaStatus.PENDING of a Media row
MEDIA_PENDING == "PENDING"

MediaTypes == {"movie", "tv", "other"}   \* req.body.mediaType, any string
TmdbIds == 1..MaxTmdbId
SeasonNumbers == 1..MaxSeason
StatusNames == {"pending", "approve", "decline", "other"}   \* :status path segment

\* req.body.seasons: every list of season numbers up to MaxLen, repeats included
SeasonLists == UNION {[1..n -> SeasonNumbers] : n \in 0..MaxLen}

None == 0   \* no Media row / no id

----------------------------------------------------------------------------
(* Sequence helpers *)

RECURSIVE SelectSeqBy(_, _)
\* Array.prototype.filter with the test "not in excl"
SelectSeqBy(s, excl) ==
    IF s = <<>> THEN <<>>
    ELSE IF Head(s) \in excl THEN SelectSeqBy(Tail(s), excl)
         ELSE <<Head(s)>> \o SelectSeqBy(Tail(s), excl)

Range(s) == {s[i] : i \in DOMAIN s}

----------------------------------------------------------------------------
(* Responses *)

\* the last call and the response sent for it: args is the request body of a
\* create (mediaType, mediaId, seasons) or the :status segment; body is the
\* JSON sent, a list of MediaRequest rows
Response(op, u, id, args, code, msg, body) ==
    [op |-> op, user |-> u, id |-> id, args |-> args, code |-> code,
     msg |-> msg, body |-> body]

NoResponse == Response("none", "none", None, <<>>, 0, "", <<>>)

----------------------------------------------------------------------------
(* The pieces of the handlers *)

\* tmdb.getMovie / tmdb.getTvShow: the title for the id asked for, with its tvdb id
tmdbMedia(mediaId) == [id |-> mediaId, tvdb_id |-> 100 + mediaId]

\* mediaRepository.findOne({ where: { tmdbId } }): the rows the query matches;
\* the query names no order, so with several matches any of them may come back
MediaMatches(ms, mediaId) == {i \in DOMAIN ms : ms[i].tmdbId = mediaId}

\* slip: the lookup never finds the row (compared on the wrong column)
findOneMedia_NeverFinds(ms, mediaId) == {None}

findOneMedia(ms, mediaId) ==
    IF MediaMatches(ms, mediaId) = {} THEN {None} ELSE MediaMatches(ms, mediaId)

\* new Media({...})
NewMedia(tm, mediaType) ==
    [tmdbId |-> tm.id, tvdbId |-> tm.tvdb_id, status |-> MEDIA_PENDING,
     mediaType |-> mediaType]

\* slip: the save turns into an upsert keyed by tmdbId
saveMedia_Upsert(ms, media) ==
    IF MediaMatches(ms, media.tmdbId) = {} THEN Append(ms, media) ELSE ms

\* mediaRepository.save(media) of a new Media: an insert, whatever rows exist
saveMedia(ms, media) == Append(ms, media)

\* slip: the auto approve permission is not looked at
CreateStatus_AlwaysPending(u) == PENDING

\* status given to a new request and to each of its seasons
CreateStatus(u) ==
    IF hasPermission(u, "AUTO_APPROVE") THEN APPROVED ELSE PENDING

\* media.requests: the requests attached to Media row m
RequestsOf(rs, m) == {r \in rs : r.media = m}

RECURSIVE SeasonNumbersFrom(_, _, _)
\* the reduce over media.requests, in id order from id i on: the season
\* numbers of every request, concatenated
SeasonNumbersFrom(rs, i, top) ==
    IF i > top THEN <<>>
    ELSE LET here == {r \in rs : r.id = i}
             mine == IF here = {} THEN <<>>
                     ELSE LET r == CHOOSE r \in here : TRUE
                          IN [k \in DOMAIN r.seasons |-> r.seasons[k].seasonNumber]
         IN mine \o SeasonNumbersFrom(rs, i + 1, top)

\* existingSeasons: [] for a Media made by this call (it carries no requests
\* relation), else the reduce over the loaded media.requests
existingSeasons(loaded, found, top) ==
    IF found = None THEN <<>> ELSE SeasonNumbersFrom(loaded, 1, top)

\* slip: the filter keeps every requested season
finalSeasons_NoFilter(requestedSeasons, existing) == requestedSeasons

\* slip: the filter looks at the first existing season only
finalSeasons_FirstOnly(requestedSeasons, existing) ==
    SelectSeqBy(requestedSeasons,
                IF existing = <<>> THEN {} ELSE {Head(existing)})

\* finalSeasons = requestedSeasons.filter((rs) => !existingSeasons.includes(rs))
finalSeasons(requestedSeasons, existing) ==
    SelectSeqBy(requestedSeasons, Range(existing))

\* new MediaRequest({ type: MOVIE, ... })
MovieRequest(id, m, u) ==
    [id |-> id, type |-> "movie", media |-> m, requestedBy |-> u,
     status |-> CreateStatus(u), seasons |-> <<>>]

\* new MediaRequest({ type: TV, ..., seasons: finalSeasons.map(...) })
TvRequest(id, m, u, final) ==
    [id |-> id, type |-> "tv", media |-> m, requestedBy |-> u,
     status |-> CreateStatus(u),
     seasons |-> [k \in DOMAIN final |->
                    [seasonNumber |-> final[k], status |-> CreateStatus(u)]]]

\* slip: the where clause is lost, so any row answers the query
findRequest_IgnoresId(rs, id) ==
    IF rs = {} THEN {} ELSE {CHOOSE r \in rs : TRUE}

\* requestRepository.findOneOrFail({ where: { id } })
findRequest(rs, id) == {r \in rs : r.id = id}

\* slip: the owner may delete at any status (the status test is dropped)
DeleteAllowed_OwnerAnyStatus(u, request) ==
    ~(/\ ~hasPermission(u, "MANAGE_REQUESTS")
      /\ request.requestedBy # u)

\* the test that lets DELETE go on to the removal
DeleteAllowed(u, request) ==
    ~(/\ ~hasPermission(u, "MANAGE_REQUESTS")
      /\ (request.requestedBy # u \/ request.status > 0))

\* the switch over req.params.status; newStatus stays undefined on no case
HasNewStatus(name) == name \in {"pending", "approve", "decline"}

\* slip: 'approve' and 'decline' are swapped
newStatus_Swapped(name) ==
    CASE name = "pending" -> PENDING
      [] name = "approve" -> DECLINED
      [] name = "decline" -> APPROVED

newStatus(name) ==
    CASE name = "pending" -> PENDING
      [] name = "approve" -> APPROVED
      [] name = "decline" -> DECLINED

\* a variable declared and never assigned: 'let newStatus' when no case matches
UNDEFINED == -1

\* newStatus as it stands after the switch
assignedStatus(name) ==
    IF HasNewStatus(name) THEN newStatus(name) ELSE UNDEFINED

\* slip: the new status is pushed down to the seasons as well
withStatus_Cascade(request, s) ==
    [request EXCEPT !.status = s,
                    !.seasons = [k \in DOMAIN request.seasons |->
                                   [request.seasons[k] EXCEPT !.status = s]]]

\* request.status = newStatus
withStatus(request, s) == [request EXCEPT !.status = s]

\* slip: the save writes an undefined column as it finds it
saveRequest_WritesUndefined(rs, entity) ==
    (rs \ findRequest(rs, entity.id)) \cup {entity}

\* requestRepository.save(request) of a loaded request: the row with its id is
\* rewritten from the entity, a column whose property is undefined is left
\* as the row has it, and an entity whose row is gone is inserted again
saveRequest(rs, entity) ==
    IF findRequest(rs, entity.id) = {} THEN rs \cup {entity}
    ELSE LET row == CHOOSE r \in findRequest(rs, entity.id) : TRUE
         IN (rs \ {row}) \cup
               {IF entity.status = UNDEFINED
                THEN [entity EXCEPT !.status = row.status]
                ELSE entity}

\* slip: the where clause is missing
ListVisible_All(u, rs) == rs

\* the rows GET / queries: all of them for a manager, else where requestedBy
\* is the caller
ListVisible(u, rs) ==
    IF hasPermission(u, "MANAGE_REQUESTS") THEN rs
    ELSE {r \in rs : r.requestedBy = u}

\* slip: the order is ascending
RECURSIVE FindDesc_Ascending(_, _)
FindDesc_Ascending(rs, take) ==
    IF rs = {} \/ take = 0 THEN <<>>
    ELSE LET low == CHOOSE r \in rs : \A q \in rs : q.id >= r.id
         IN <<low>> \o FindDesc_Ascending(rs \ {low}, take - 1)

\* requestRepository.find({ where, order: { id: 'DESC' }, take })
RECURSIVE FindDesc(_, _)
FindDesc(rs, take) ==
    IF rs = {} \/ take = 0 THEN <<>>
    ELSE LET top == CHOOSE r \in rs : \A q \in rs : q.id <= r.id
         IN <<top>> \o FindDesc(rs \ {top}, take - 1)

PageSize == 20

----------------------------------------------------------------------------
(* State after start-up: empty tables, nothing in flight *)

\* a call not yet made. For a create: its request body, the Media it works
\* on, whether it made that Media itself (the !media branch), and its
\* finalSeasons. For a delete or a change of status: the :requestId and
\* :status segments and the request entity the handler holds.
Idle == [pc |-> "idle", user |-> "none", mediaType |-> "none", mediaId |-> None,
         seasons |-> <<>>, media |-> None, made |-> FALSE, final |-> <<>>,
         id |-> None, name |-> "none", loaded |-> <<>>]

Init ==
    /\ medias = <<>>
    /\ requests = {}
    /\ nextId = 1
    /\ last = NoResponse
    /\ tasks = [t \in 1..NumTasks |-> Idle]

----------------------------------------------------------------------------
(* The handlers, each run as a whole *)

\* GET /
List(u) ==
    /\ last' = Response("list", u, None, <<>>, 200, "",
                 FindDesc(ListVisible(u, requests), PageSize))
    /\ UNCHANGED <<medias, requests, nextId, tasks>>

\* POST /, the metadata lookup throws
CreateLookupFails(u, mediaType, mediaId) ==
    /\ hasPermission(u, "REQUEST")
    /\ last' = Response("create", u, None, <<mediaType, mediaId>>, 500,
                        "metadata lookup failed", <<>>)
    /\ UNCHANGED <<medias, requests, nextId, tasks>>

\* POST /, the metadata lookup answers
Create(u, mediaType, mediaId, requestedSeasons) ==
    /\ hasPermission(u, "REQUEST")
    /\ nextId <= MaxRequests
    /\ \E found \in findOneMedia(medias, mediaId) :
         LET args == <<mediaType, mediaId, requestedSeasons>>
             tm == tmdbMedia(mediaId)
             saved == IF found = None
                      THEN saveMedia(medias, NewMedia(tm, mediaType))
                      ELSE medias
             media == IF found = None THEN Len(saved) ELSE found
             existing == existingSeasons(RequestsOf(requests, found), found,
                                         nextId - 1)
             final == finalSeasons(requestedSeasons, existing)
         IN /\ medias' = saved
            /\ IF mediaType = "movie"
               THEN /\ requests' = requests \cup {MovieRequest(nextId, media, u)}
                    /\ nextId' = nextId + 1
                    /\ last' = Response("create", u, None, args, 201, "",
                                        <<MovieRequest(nextId, media, u)>>)
               ELSE IF mediaType = "tv"
               THEN IF Len(final) = 0
                    THEN /\ last' = Response("create", u, None, args, 500,
                                      "No seasons available to request", <<>>)
                         /\ UNCHANGED <<requests, nextId>>
                    ELSE /\ requests' =
                              requests \cup {TvRequest(nextId, media, u, final)}
                         /\ nextId' = nextId + 1
                         /\ last' = Response("create", u, None, args, 201, "",
                                        <<TvRequest(nextId, media, u, final)>>)
               ELSE /\ last' = Response("create", u, None, args, 500,
                                        "Invalid media type", <<>>)
                    /\ UNCHANGED <<requests, nextId>>
    /\ UNCHANGED tasks

\* GET /:requestId (the handler never reads req.user)
Get(id) ==
    /\ IF findRequest(requests, id) = {}
       THEN last' = Response("get", "any", id, <<>>, 404, "Request not found", <<>>)
       ELSE last' = Response("get", "any", id, <<>>, 200, "",
                             <<CHOOSE r \in findRequest(requests, id) : TRUE>>)
    /\ UNCHANGED <<medias, requests, nextId, tasks>>

\* DELETE /:requestId
Delete(u, id) ==
    /\ IF findRequest(requests, id) = {}
       THEN /\ last' = Response("delete", u, id, <<>>, 404, "Request not found", <<>>)
            /\ UNCHANGED requests
       ELSE LET request == CHOOSE r \in findRequest(requests, id) : TRUE
            IN IF ~DeleteAllowed(u, request)
               THEN /\ last' = Response("delete", u, id, <<>>, 401,
                         "You do not have permission to remove this request", <<>>)
                    /\ UNCHANGED requests
               ELSE /\ requests' = requests \ {request}
                    /\ last' = Response("delete", u, id, <<>>, 200, "", <<request>>)
    /\ UNCHANGED <<medias, nextId, tasks>>

\* slip: only a pending request may change status, any other is refused
ChangeStatus_OnlyFromPending(u, id, name) ==
    /\ hasPermission(u, "MANAGE_REQUESTS")
    /\ IF findRequest(requests, id) = {}
       THEN /\ last' = Response("status", u, id, <<name>>, 404, "Request not found", <<>>)
            /\ UNCHANGED requests
       ELSE LET request == CHOOSE r \in findRequest(requests, id) : TRUE
                updated == withStatus(request, assignedStatus(name))
            IN IF request.status # PENDING
               THEN /\ last' = Response("status", u, id, <<name>>, 401, "", <<>>)
                    /\ UNCHANGED requests
               ELSE /\ requests' = saveRequest(requests, updated)
                    /\ last' = Response("status", u, id, <<name>>, 200, "",
                                        <<updated>>)
    /\ UNCHANGED <<medias, nextId, tasks>>

\* GET /:requestId/:status
ChangeStatus(u, id, name) ==
    /\ hasPermission(u, "MANAGE_REQUESTS")
    /\ IF findRequest(requests, id) = {}
       THEN /\ last' = Response("status", u, id, <<name>>, 404, "Request not found", <<>>)
            /\ UNCHANGED requests
       ELSE LET request == CHOOSE r \in findRequest(requests, id) : TRUE
                updated == withStatus(request, assignedStatus(name))
            IN /\ requests' = saveRequest(requests, updated)
               /\ last' = Response("status", u, id, <<name>>, 200, "", <<updated>>)
    /\ UNCHANGED <<medias, nextId, tasks>>

\* ids a caller may name: each is unknown before it is handed out and after
\* its row is deleted
RequestIds == 1..MaxRequests

Next ==
    \/ \E u \in Users : List(u)
    \/ \E u \in Users, mt \in MediaTypes, mid \in TmdbIds :
          CreateLookupFails(u, mt, mid)
    \/ \E u \in Users, mt \in MediaTypes, mid \in TmdbIds, sl \in SeasonLists :
          Create(u, mt, mid, sl)
    \/ \E id \in RequestIds : Get(id)
    \/ \E u \in Users, id \in RequestIds : Delete(u, id)
    \/ \E u \in Users, id \in RequestIds, name \in StatusNames :
          ChangeStatus(u, id, name)

Spec == Init /\ [][Next]_vars

----------------------------------------------------------------------------
(* The create handler cut at its awaits: each task is one POST / call, and   *)
(* a step is one store operation together with the handler code that runs   *)
(* on its result up to the next await.                                      *)

Tasks == 1..NumTasks

\* lines 68-132 run on the Media in hand: the request to save, or a 500
AfterMedia(task, m, made, existing) ==
    LET args == <<task.mediaType, task.mediaId, task.seasons>>
        final == finalSeasons(task.seasons, existing)
        here == [task EXCEPT !.media = m, !.made = made]
    IN IF task.mediaType = "movie"
       THEN [task |-> [here EXCEPT !.pc = "saveRequest"], sent |-> FALSE,
             resp |-> NoResponse]
       ELSE IF task.mediaType = "tv"
       THEN IF Len(final) = 0
            THEN [task |-> [here EXCEPT !.pc = "done"], sent |-> TRUE,
                  resp |-> Response("create", task.user, None, args, 500,
                                    "No seasons available to request", <<>>)]
            ELSE [task |-> [here EXCEPT !.pc = "saveRequest", !.final = final],
                  sent |-> FALSE, resp |-> NoResponse]
       ELSE [task |-> [here EXCEPT !.pc = "done"], sent |-> TRUE,
             resp |-> Response("create", task.user, None, args, 500,
                               "Invalid media type", <<>>)]

\* the call comes in and the metadata lookup answers
Begin(t, u, mediaType, mediaId, requestedSeasons) ==
    /\ tasks[t].pc = "idle"
    /\ hasPermission(u, "REQUEST")
    /\ tasks' = [tasks EXCEPT ![t] =
                    [Idle EXCEPT !.pc = "find", !.user = u,
                                 !.mediaType = mediaType, !.mediaId = mediaId,
                                 !.seasons = requestedSeasons]]
    /\ UNCHANGED <<medias, requests, nextId, last>>

\* the call comes in and the metadata lookup throws
BeginLookupFails(t, u, mediaType, mediaId) ==
    /\ tasks[t].pc = "idle"
    /\ hasPermission(u, "REQUEST")
    /\ tasks' = [tasks EXCEPT ![t] =
                    [Idle EXCEPT !.pc = "done", !.user = u,
                                 !.mediaType = mediaType, !.mediaId = mediaId]]
    /\ last' = Response("create", u, None, <<mediaType, mediaId>>, 500,
                        "metadata lookup failed", <<>>)
    /\ UNCHANGED <<medias, requests, nextId>>

\* await mediaRepository.findOne(...)
Find(t) ==
    /\ tasks[t].pc = "find"
    /\ \E found \in findOneMedia(medias, tasks[t].mediaId) :
          IF found = None
          THEN /\ tasks' = [tasks EXCEPT ![t].pc = "saveMedia"]
               /\ UNCHANGED last
          ELSE LET go == AfterMedia(tasks[t], found, FALSE,
                            existingSeasons(RequestsOf(requests, found), found,
                                            nextId - 1))
               IN /\ tasks' = [tasks EXCEPT ![t] = go.task]
                  /\ last' = IF go.sent THEN go.resp ELSE last
    /\ UNCHANGED <<medias, requests, nextId>>

\* await mediaRepository.save(media)
SaveMedia(t) ==
    /\ tasks[t].pc = "saveMedia"
    /\ medias' = saveMedia(medias, NewMedia(tmdbMedia(tasks[t].mediaId),
                                            tasks[t].mediaType))
    /\ LET go == AfterMedia(tasks[t], Len(medias'), TRUE,
                            existingSeasons({}, None, nextId - 1))
       IN /\ tasks' = [tasks EXCEPT ![t] = go.task]
          /\ last' = IF go.sent THEN go.resp ELSE last
    /\ UNCHANGED <<requests, nextId>>

\* await requestRepository.save(request)
SaveRequest(t) ==
    /\ tasks[t].pc = "saveRequest"
    /\ LET task == tasks[t]
           request == IF task.mediaType = "movie"
                      THEN MovieRequest(nextId, task.media, task.user)
                      ELSE TvRequest(nextId, task.media, task.user, task.final)
       IN /\ requests' = requests \cup {request}
          /\ last' = Response("create", task.user, None,
                              <<task.mediaType, task.mediaId, task.seasons>>,
                              201, "", <<request>>)
    /\ nextId' = nextId + 1
    /\ tasks' = [tasks EXCEPT ![t].pc = "done"]
    /\ UNCHANGED medias

ConcNext ==
    \/ \E t \in Tasks, u \in Users, mt \in MediaTypes, mid \in TmdbIds,
          sl \in SeasonLists : Begin(t, u, mt, mid, sl)
    \/ \E t \in Tasks, u \in Users, mt \in MediaTypes, mid \in TmdbIds :
          BeginLookupFails(t, u, mt, mid)
    \/ \E t \in Tasks : Find(t)
    \/ \E t \in Tasks : SaveMedia(t)
    \/ \E t \in Tasks : SaveRequest(t)

ConcSpec == Init /\ [][ConcNext]_vars

----------------------------------------------------------------------------
(* Listing a long table: the tables as they stand after n movie requests of  *)
(* one title were filed by ann and bob and one of them was deleted.          *)

\* who filed request i: bob every period-th one, ann the others
FiledBy(period, i) == IF i % period = 0 THEN "bob" ELSE "ann"

ListInit ==
    \E n \in 0..ListRows, period \in {1, 2, 8}, gone \in 0..ListRows :
        /\ gone <= n
        /\ medias = IF n = 0 THEN <<>>
                    ELSE <<NewMedia(tmdbMedia(1), "movie")>>
        /\ requests = {MovieRequest(i, 1, FiledBy(period, i)) :
                          i \in (1..n) \ {gone}}
        /\ nextId = n + 1
        /\ last = NoResponse
        /\ tasks = [t \in 1..NumTasks |-> Idle]

ListNext == \E u \in Users : List(u)

ListSpec == ListInit /\ [][ListNext]_vars

----------------------------------------------------------------------------
(* DELETE /:requestId and GET /:requestId/:status cut at their awaits, over  *)
(* tables that hold one request: each task is one call, a step is one store  *)
(* operation together with the handler code that runs on its result.         *)

\* the tables after one create by ann or bob and any changes of status
RaceInit ==
    \E u \in {"ann", "bob"}, type \in {"movie", "tv"},
       status \in {PENDING, APPROVED, DECLINED} :
        /\ medias = <<NewMedia(tmdbMedia(1), type)>>
        /\ requests = {withStatus(IF type = "movie" THEN MovieRequest(1, 1, u)
                                  ELSE TvRequest(1, 1, u, <<1>>), status)}
        /\ nextId = 2
        /\ last = NoResponse
        /\ tasks = [t \in 1..NumTasks |-> Idle]

\* DELETE: await findOneOrFail, then the permission test
DeleteFind(t, u, id) ==
    /\ tasks[t].pc = "idle"
    /\ IF findRequest(requests, id) = {}
       THEN /\ last' = Response("delete", u, id, <<>>, 404, "Request not found", <<>>)
            /\ tasks' = [tasks EXCEPT ![t] =
                            [Idle EXCEPT !.pc = "done", !.user = u, !.id = id]]
       ELSE LET request == CHOOSE r \in findRequest(requests, id) : TRUE
            IN IF ~DeleteAllowed(u, request)
               THEN /\ last' = Response("delete", u, id, <<>>, 401,
                         "You do not have permission to remove this request", <<>>)
                    /\ tasks' = [tasks EXCEPT ![t] =
                            [Idle EXCEPT !.pc = "done", !.user = u, !.id = id]]
               ELSE /\ UNCHANGED last
                    /\ tasks' = [tasks EXCEPT ![t] =
                            [Idle EXCEPT !.pc = "remove", !.user = u, !.id = id,
                                         !.loaded = <<request>>]]
    /\ UNCHANGED <<medias, requests, nextId>>

\* DELETE: await requestRepository.delete(request.id), whatever the row holds
\* by now
DeleteRemove(t) ==
    /\ tasks[t].pc = "remove"
    /\ requests' = requests \ findRequest(requests, tasks[t].id)
    /\ last' = Response("delete", tasks[t].user, tasks[t].id, <<>>, 200, "",
                        tasks[t].loaded)
    /\ tasks' = [tasks EXCEPT ![t].pc = "done"]
    /\ UNCHANGED <<medias, nextId>>

\* change of status: await findOneOrFail, then the switch and the assignment
StatusFind(t, u, id, name) ==
    /\ tasks[t].pc = "idle"
    /\ hasPermission(u, "MANAGE_REQUESTS")
    /\ IF findRequest(requests, id) = {}
       THEN /\ last' = Response("status", u, id, <<name>>, 404, "Request not found", <<>>)
            /\ tasks' = [tasks EXCEPT ![t] =
                            [Idle EXCEPT !.pc = "done", !.user = u, !.id = id,
                                         !.name = name]]
       ELSE LET request == CHOOSE r \in findRequest(requests, id) : TRUE
            IN /\ UNCHANGED last
               /\ tasks' = [tasks EXCEPT ![t] =
                     [Idle EXCEPT !.pc = "save", !.user = u, !.id = id,
                                  !.name = name,
                                  !.loaded = <<withStatus(request,
                                                  assignedStatus(name))>>]]
    /\ UNCHANGED <<medias, requests, nextId>>

\* change of status: await requestRepository.save(request). An entity whose
\* row is gone is inserted, and the insert throws when its status is
\* undefined (caught as 404)
StatusSave(t) ==
    /\ tasks[t].pc = "save"
    /\ LET entity == tasks[t].loaded[1]
       IN IF findRequest(requests, entity.id) = {} /\ entity.status = UNDEFINED
          THEN /\ last' = Response("status", tasks[t].user, tasks[t].id,
                                   <<tasks[t].name>>, 404, "Request not found",
                                   <<>>)
               /\ UNCHANGED requests
          ELSE /\ requests' = saveRequest(requests, entity)
               /\ last' = Response("status", tasks[t].user, tasks[t].id,
                                   <<tasks[t].name>>, 200, "", <<entity>>)
    /\ tasks' = [tasks EXCEPT ![t].pc = "done"]
    /\ UNCHANGED <<medias, nextId>>

RaceNext ==
    \/ \E t \in Tasks, u \in Users, id \in RequestIds : DeleteFind(t, u, id)
    \/ \E t \in Tasks : DeleteRemove(t)
    \/ \E t \in Tasks, u \in Users, id \in RequestIds, name \in StatusNames :
          StatusFind(t, u, id, name)
    \/ \E t \in Tasks : StatusSave(t)

RaceSpec == RaceInit /\ [][RaceNext]_vars

----------------------------------------------------------------------------
(* What the claims read *)

Manager(u) == "MANAGE_REQUESTS" \in permissions[u]
AutoApprove(u) == "AUTO_APPROVE" \in permissions[u]

\* the stored request with this id, when there is one
Stored(id) == CHOOSE r \in requests : r.id = id
Exists(id) == \E r \in requests : r.id = id

Failed(code) == code \in {401, 404, 500}

\* season numbers held by the stored requests whose Media has this catalog id
HeldSeasons(mediaId) ==
    UNION {{r.seasons[k].seasonNumber : k \in DOMAIN r.seasons} :
              r \in {q \in requests : /\ q.media \in DOMAIN medias
                                      /\ medias[q.media].tmdbId = mediaId}}

SeasonNumbersOf(r) == [k \in DOMAIN r.seasons |-> r.seasons[k].seasonNumber]

----------------------------------------------------------------------------
(* C1 *)

\* C1: a DELETE of an existing request by a caller without manage-requests
\* removes the row (200) exactly when the caller is the requester and the
\* status is pending; otherwise it answers 401 and the row stays. A caller
\* with manage-requests removes any existing request at any status.
DeleteAuthorization ==
    [][\A u \in Users, id \in RequestIds :
          (Delete(u, id) /\ Exists(id)) =>
             IF Manager(u) \/ (/\ Stored(id).requestedBy = u
                               /\ Stored(id).status = PENDING)
             THEN last'.code = 200 /\ requests' = requests \ {Stored(id)}
             ELSE last'.code = 401 /\ requests' = requests]_vars

\* the owner, without manage-requests, was refused on an approved request
OwnerRefusedAfterApproval ==
    /\ last.op = "delete"
    /\ last.code = 401
    /\ ~Manager(last.user)
    /\ Exists(last.id)
    /\ Stored(last.id).requestedBy = last.user
    /\ Stored(last.id).status = APPROVED

----------------------------------------------------------------------------
(* C2 *)

\* C2: a call that ends in a failure (401, 404, 500) leaves the Media table
\* and the MediaRequest table as they were before the call.
FailureChangesNothing ==
    [][Failed(last'.code) => (medias' = medias /\ requests' = requests)]_vars

----------------------------------------------------------------------------
(* C3 *)

\* C3: for each Media, no season number is held by two SeasonRequests, be
\* they of two requests of that Media or of one request.
OneSeasonRequestPerNumber ==
    \A r1 \in requests, r2 \in requests :
        \A k1 \in DOMAIN r1.seasons, k2 \in DOMAIN r2.seasons :
            (/\ r1.media = r2.media
             /\ r1.seasons[k1].seasonNumber = r2.seasons[k2].seasonNumber)
                => (r1 = r2 /\ k1 = k2)

----------------------------------------------------------------------------
(* C4 *)

\* C4: a tv create that succeeds stores exactly one new request, of the Media
\* of the catalog id asked for, whose season numbers are the input list
\* without the numbers held by the requests stored for that Media before
\* the call.
TvCreateStoresNetNewSeasons ==
    [][\A u \in Users, mid \in TmdbIds, sl \in SeasonLists :
          (Create(u, "tv", mid, sl) /\ last'.code = 201) =>
             \E r \in requests' :
                 /\ r \notin requests
                 /\ requests' = requests \cup {r}
                 /\ r.type = "tv"
                 /\ medias'[r.media].tmdbId = mid
                 /\ SeasonNumbersOf(r) = SelectSeqBy(sl, HeldSeasons(mid))]_vars

\* a tv create went through with part of its input already held
TvCreateDroppedHeldSeasons ==
    /\ last.op = "create"
    /\ last.code = 201
    /\ last.args[1] = "tv"
    /\ last.body[1] \in requests
    /\ 0 < Len(last.body[1].seasons)
    /\ Len(last.body[1].seasons) < Len(last.args[3])
    /\ \E r \in requests :
          /\ r # last.body[1]
          /\ r.media = last.body[1].media
          /\ Range(SeasonNumbersOf(r)) \cap Range(last.args[3]) # {}

----------------------------------------------------------------------------
(* C5 *)

\* C5: a tv create whose every requested season number is held by the
\* requests stored for that Media answers 500 'No seasons available to
\* request' and leaves the set of request rows as it was.
AllSeasonsHeldCreateFails ==
    [][\A u \in Users, mid \in TmdbIds, sl \in SeasonLists :
          (/\ Create(u, "tv", mid, sl)
           /\ \A k \in DOMAIN sl : sl[k] \in HeldSeasons(mid)) =>
             /\ last'.code = 500
             /\ last'.msg = "No seasons available to request"
             /\ requests' = requests]_vars

\* a tv create naming held seasons only was refused
HeldSeasonsCreateRefused ==
    /\ last.op = "create"
    /\ last.code = 500
    /\ last.msg = "No seasons available to request"
    /\ Len(last.args[3]) > 0
    /\ \A k \in DOMAIN last.args[3] : last.args[3][k] \in HeldSeasons(last.args[2])

----------------------------------------------------------------------------
(* C6 *)

\* C6: with calls one after another no two Media rows have the same catalog
\* id, every request references a Media row, and a create that succeeds
\* attaches its request to the row of the catalog id asked for.
MediaNeverDuplicated ==
    /\ \A i \in DOMAIN medias, j \in DOMAIN medias :
          medias[i].tmdbId = medias[j].tmdbId => i = j
    /\ \A r \in requests : r.media \in DOMAIN medias
    /\ (last.op = "create" /\ last.code = 201) =>
          medias[last.body[1].media].tmdbId = last.args[2]

\* two movie requests of one catalog id share the one Media row
TwoMovieRequestsOneMedia ==
    /\ last.op = "create"
    /\ last.code = 201
    /\ last.args[1] = "movie"
    /\ Cardinality(MediaMatches(medias, last.args[2])) = 1
    /\ \E r \in requests :
          /\ r # last.body[1]
          /\ r.type = "movie"
          /\ r.media = last.body[1].media
          /\ last.body[1] \in requests

----------------------------------------------------------------------------
(* C8 *)

\* C8: the list sent to a caller without manage-requests holds only requests
\* whose requestedBy is the caller.
ListShowsOnlyOwn ==
    (last.op = "list" /\ ~Manager(last.user)) =>
        \A k \in DOMAIN last.body : last.body[k].requestedBy = last.user

\* such a caller listed her requests while another user's request is stored
ListedOwnAmongOthers ==
    /\ last.op = "list"
    /\ ~Manager(last.user)
    /\ Len(last.body) > 0
    /\ \E r \in requests : r.requestedBy # last.user

----------------------------------------------------------------------------
(* C9 *)

\* C9: the request a create stores is approved when the caller holds auto
\* approve and pending otherwise, movie or tv, and each of its seasons has
\* the status of the request.
CreatedStatusFollowsAutoApprove ==
    (last.op = "create" /\ last.code = 201) =>
        /\ last.body[1] \in requests
        /\ last.body[1].status =
              (IF AutoApprove(last.user) THEN APPROVED ELSE PENDING)
        /\ \A k \in DOMAIN last.body[1].seasons :
              last.body[1].seasons[k].status = last.body[1].status

\* a tv request of a caller with auto approve was stored approved
AutoApprovedTvCreated ==
    /\ last.op = "create"
    /\ last.code = 201
    /\ AutoApprove(last.user)
    /\ last.body[1].type = "tv"
    /\ last.body[1].status = APPROVED
    /\ Len(last.body[1].seasons) > 0
    /\ \E r \in requests : r.status = PENDING /\ r.type = "movie"

----------------------------------------------------------------------------
(* C10 *)

\* C10: 'approve' on a pending request makes it approved and changes nothing
\* else; 'approve' on a request that is approved already leaves both tables
\* as they are.
ApproveIsIdempotent ==
    [][\A u \in Users, id \in RequestIds :
          (/\ ChangeStatus(u, id, "approve")
           /\ Exists(id)
           /\ Stored(id).status \in {PENDING, APPROVED}) =>
             /\ last'.code = 200
             /\ requests' = (requests \ {Stored(id)})
                               \cup {[Stored(id) EXCEPT !.status = APPROVED]}
             /\ medias' = medias
             /\ nextId' = nextId
             /\ (Stored(id).status = APPROVED =>
                    (requests' = requests /\ last'.body = <<Stored(id)>>))]_vars

\* a request filed pending stands approved after an 'approve' call
PendingRequestApproved ==
    /\ last.op = "status"
    /\ last.args = <<"approve">>
    /\ last.code = 200
    /\ Exists(last.id)
    /\ Stored(last.id).status = APPROVED
    /\ ~AutoApprove(Stored(last.id).requestedBy)

----------------------------------------------------------------------------
(* C7 *)

\* create calls that took the !media branch for this catalog id and saved
MadeMedia(mediaId) ==
    {t \in Tasks : tasks[t].mediaId = mediaId /\ tasks[t].made}

\* C7: with create calls overlapping, every call whose lookup found no Media
\* saves a row of its own, whatever the table holds by then: a catalog id has
\* as many Media rows as there are such calls, two when two calls both
\* looked before either saved.
EveryMissedLookupAddsARow ==
    \A c \in TmdbIds :
        Cardinality(MediaMatches(medias, c)) = Cardinality(MadeMedia(c))

\* two Media rows with one catalog id
DuplicateMediaRows ==
    \E i \in DOMAIN medias, j \in DOMAIN medias :
        /\ i # j
        /\ medias[i].tmdbId = medias[j].tmdbId
        /\ Cardinality(MadeMedia(medias[i].tmdbId)) = 2

----------------------------------------------------------------------------
(* C11 *)

\* C11: GET /:requestId, DELETE /:requestId and GET /:requestId/:status on an
\* id no stored request has answer 404 'Request not found' and leave the
\* Media table and the MediaRequest table as they were.
UnknownIdIsNotFound ==
    [][\A id \in RequestIds :
          (/\ ~Exists(id)
           /\ \/ Get(id)
              \/ \E u \in Users : Delete(u, id)
              \/ \E u \in Users, name \in StatusNames : ChangeStatus(u, id, name))
             => /\ last'.code = 404
                /\ last'.msg = "Request not found"
                /\ medias' = medias
                /\ requests' = requests]_vars

\* a delete named an id that no row has while another request is stored
DeleteOfUnknownIdRefused ==
    /\ last.op = "delete"
    /\ last.code = 404
    /\ ~Exists(last.id)
    /\ requests # {}

----------------------------------------------------------------------------
(* C12 *)

\* the requests GET / may show this caller
VisibleTo(u) ==
    IF Manager(u) THEN requests ELSE {r \in requests : r.requestedBy = u}

\* C12: a listing holds at most 20 requests, in strictly descending id order,
\* all of them visible to the caller (every request for a caller with
\* manage-requests, the caller's own otherwise), and every visible request
\* left out has a lower id than each one listed and is left out only of a
\* full page.
ListIsNewestPage ==
    (last.op = "list") =>
        /\ Len(last.body) <= 20
        /\ \A k \in 1..(Len(last.body) - 1) :
              last.body[k].id > last.body[k + 1].id
        /\ Range(last.body) \subseteq VisibleTo(last.user)
        /\ \A r \in VisibleTo(last.user) \ Range(last.body) :
              /\ Len(last.body) = 20
              /\ \A k \in DOMAIN last.body : r.id < last.body[k].id

\* a caller without manage-requests with more than 20 requests of her own got
\* a full page, with another user's newer request left out of it
OwnPageCutAtTwenty ==
    /\ last.op = "list"
    /\ ~Manager(last.user)
    /\ Len(last.body) = 20
    /\ Cardinality(VisibleTo(last.user)) > 20
    /\ \E r \in requests :
          r.requestedBy # last.user /\ r.id > last.body[20].id

----------------------------------------------------------------------------
(* C13 *)

\* C13: a change of status on a stored request rewrites the status of that
\* request and nothing else: its other fields, the statuses of its seasons
\* among them, every other request and every Media row stay as they were.
ChangeStatusTouchesOnlyStatus ==
    [][\A u \in Users, id \in RequestIds, name \in StatusNames :
          (ChangeStatus(u, id, name) /\ Exists(id)) =>
             /\ medias' = medias
             /\ nextId' = nextId
             /\ \E r \in requests' :
                   /\ r.id = id
                   /\ r = [Stored(id) EXCEPT !.status = r.status]
                   /\ requests' \ {r} = requests \ {Stored(id)}]_vars

\* a tv request was given a status its seasons do not have, beside another
\* stored request
SeasonsKeptTheirStatus ==
    /\ last.op = "status"
    /\ last.code = 200
    /\ Exists(last.id)
    /\ Len(Stored(last.id).seasons) > 0
    /\ Stored(last.id).seasons[1].status # Stored(last.id).status
    /\ Cardinality(requests) > 1

----------------------------------------------------------------------------
(* C14 *)

\* C14: for a caller with manage-requests, each of 'pending', 'approve' and
\* 'decline' on a stored request answers 200 and leaves the request pending,
\* approved or declined, whatever status it had.
AnyTargetFromAnyStatus ==
    [][\A u \in Users, id \in RequestIds :
          \A name \in {"pending", "approve", "decline"} :
             (ChangeStatus(u, id, name) /\ Exists(id)) =>
                /\ last'.code = 200
                /\ \E r \in requests' :
                      /\ r.id = id
                      /\ r.status = (IF name = "pending" THEN PENDING
                                     ELSE IF name = "approve" THEN APPROVED
                                     ELSE DECLINED)]_vars

\* a request filed approved was set back to pending
ApprovedSetBackToPending ==
    /\ last.op = "status"
    /\ last.args = <<"pending">>
    /\ last.code = 200
    /\ Exists(last.id)
    /\ Stored(last.id).status = PENDING
    /\ AutoApprove(Stored(last.id).requestedBy)

----------------------------------------------------------------------------
(* C15 *)

\* C15: every stored request is pending, approved or declined, also after a
\* change of status whose :status segment is none of the three names.
StoredStatusIsValid ==
    \A r \in requests : r.status \in {PENDING, APPROVED, DECLINED}

\* a change of status with an unknown segment was answered 200
UnknownSegmentAccepted ==
    /\ last.op = "status"
    /\ last.args = <<"other">>
    /\ last.code = 200
    /\ Exists(last.id)
    /\ last.body[1].status = UNDEFINED

----------------------------------------------------------------------------
(* C16 *)

\* C16: the type of every stored request is the mediaType of the Media row
\* it references.
RequestTypeMatchesMedia ==
    \A r \in requests :
        r.media \in DOMAIN medias /\ medias[r.media].mediaType = r.type

----------------------------------------------------------------------------
(* C17 *)

\* C17: with a DELETE of the requester, who holds no manage-requests, and a
\* change of status by a manager overlapping on one request, the row the
\* DELETE removes is pending at the moment it is removed.
OwnerRemovesOnlyPending ==
    [][\A t \in Tasks :
          (DeleteRemove(t) /\ ~Manager(tasks[t].user)) =>
             \A r \in requests \ requests' : r.status = PENDING]_vars

====
